---- MODULE Spec2Model ----
(***************************************************************************)
(* Model of the car-marketplace chaincode                                  *)
(* (asset-transfer-project/chaincode-go/chaincode/smartcontract.go).       *)
(*                                                                         *)
(* The world state is a map from keys to JSON documents.  A JSON document  *)
(* is a function from its member names to values, so decoding a document   *)
(* into a Go struct (encoding/json) keeps the members the struct declares, *)
(* gives the zero value to those the document lacks and drops the others.  *)
(* Amounts are whole numbers below 2^24, where float32 arithmetic is exact.*)
(* A nil slice and an empty slice are both the empty sequence.             *)
(***************************************************************************)
EXTENDS Integers, Sequences, FiniteSets, TLC

VARIABLES
    store,   \* the world state: key -> JSON document
    prev,    \* the world state the invocation in progress started from
    last,    \* the invocation whose response is pending, or Idle; its
             \* fault is the number of the write that failed (0: none)
    writes,  \* state-changing invocations since the last seeding
    seeded,  \* whether InitLedger has been committed
    faulted, \* whether a write has failed since the last seeding
    cursors  \* query cursors obtained and not yet closed

vars == <<store, prev, last, writes, seeded, faulted, cursors>>

(* Number of state-changing invocations explored after a seeding; the      *)
(* invocations in which the platform fails are explored before the last    *)
(* of them.                                                                *)
MaxWrites == 5

-----------------------------------------------------------------------------
(* Values of the invocations' arguments. *)

Ids == {"car1", "user1", "user3"}

Prices == {-850, 0, 1000, 2000, 5000}

Colors == {"Black"}

Descriptions == {"Flat tires"}

NoError == "nil"

ErrCarNotExist == "the car does not exist"
ErrUserNotExist == "the user does not exist"
ErrAssetNotExist == "the asset does not exist"
ErrPrice == "price can't be zero or lower"
ErrCanceled == "car purhcase has been canceled due to car malfunctions"
ErrPurchase == "user doesn't have enough money for purchase"
ErrRepair == "user doesn't have enough money for repair costs"
ErrPersistence == "failed to put to world state"
ErrGetQueryResult == "GetQueryResult failed"
ErrNext == "resultsIterator.Next failed"
ErrDecode == "json.Unmarshal failed"

(* The error taxonomy. *)
NotFound == {ErrCarNotExist, ErrUserNotExist, ErrAssetNotExist}
ValidationError == {ErrPrice, ErrCanceled}
InsufficientFunds == {ErrPurchase, ErrRepair}

-----------------------------------------------------------------------------
(* Entity model and its JSON encoding. *)

Field(json, name, zero) == IF name \in DOMAIN json THEN json[name] ELSE zero

UnmarshalUser(json) ==
    [ID        |-> Field(json, "ID", ""),
     DocType   |-> Field(json, "docType", ""),
     FirstName |-> Field(json, "firstName", ""),
     LastName  |-> Field(json, "lastName", ""),
     Email     |-> Field(json, "email", ""),
     Balance   |-> Field(json, "balance", 0)]

MarshalUser(user) ==
    [ID        |-> user.ID,
     docType   |-> user.DocType,
     firstName |-> user.FirstName,
     lastName  |-> user.LastName,
     email     |-> user.Email,
     balance   |-> user.Balance]

UnmarshalCar(json) ==
    [ID           |-> Field(json, "ID", ""),
     DocType      |-> Field(json, "docType", ""),
     Brand        |-> Field(json, "brand", ""),
     Model        |-> Field(json, "model", ""),
     Year         |-> Field(json, "year", ""),
     Color        |-> Field(json, "color", ""),
     Owner        |-> Field(json, "owner", ""),
     Price        |-> Field(json, "price", 0),
     Malfunctions |-> Field(json, "malfunctions", <<>>)]

MarshalCar(car) ==
    [ID           |-> car.ID,
     docType      |-> car.DocType,
     brand        |-> car.Brand,
     model        |-> car.Model,
     year         |-> car.Year,
     color        |-> car.Color,
     owner        |-> car.Owner,
     price        |-> car.Price,
     malfunctions |-> car.Malfunctions]

Malfunction(description, price) == [description |-> description, price |-> price]

RECURSIVE SumPrices(_)
SumPrices(malfunctions) ==
    IF malfunctions = <<>> THEN 0
    ELSE Head(malfunctions).price + SumPrices(Tail(malfunctions))

-----------------------------------------------------------------------------
(* State accessor: the write set of an invocation is a sequence of puts    *)
(* and deletes, applied to the world state in the order they were issued.  *)

(* checked: whether the handler looks at the error the call returns. *)
Put(key, value) ==
    [kind |-> "put", key |-> key, value |-> value, checked |-> TRUE]

PutIgnored(key, value) ==
    [kind |-> "put", key |-> key, value |-> value, checked |-> FALSE]

Del(key) == [kind |-> "del", key |-> key, checked |-> TRUE]

PutState(st, key, value) ==
    [k \in DOMAIN st \cup {key} |-> IF k = key THEN value ELSE st[k]]

DelState(st, key) == [k \in DOMAIN st \ {key} |-> st[k]]

RECURSIVE ApplyWrites(_, _)
ApplyWrites(st, ws) ==
    IF ws = <<>> THEN st
    ELSE ApplyWrites(IF Head(ws).kind = "put"
                        THEN PutState(st, Head(ws).key, Head(ws).value)
                        ELSE DelState(st, Head(ws).key),
                     Tail(ws))

(* The writes ws issued from number i on, the write number f failing: a    *)
(* failed write leaves the world state as it was, the handler returns at a *)
(* failed write whose error it checks and goes on after one whose error it *)
(* ignores.  Writes already issued stay.                                   *)
RECURSIVE IssueWrites(_, _, _, _)
IssueWrites(st, ws, i, f) ==
    IF i > Len(ws) THEN [err |-> NoError, st |-> st]
    ELSE IF i = f
         THEN IF ws[i].checked
              THEN [err |-> ErrPersistence, st |-> st]
              ELSE IssueWrites(st, ws, i + 1, f)
    ELSE IssueWrites(ApplyWrites(st, <<ws[i]>>), ws, i + 1, f)

Fail(err) == [err |-> err, ws |-> <<>>]

Done(ws) == [err |-> NoError, ws |-> ws]

-----------------------------------------------------------------------------
(* Operation handlers.  Each gives the error it returns and the writes it  *)
(* issued, computed from the world state st the invocation reads.          *)

users ==
    << [ID |-> "user1", DocType |-> "user", FirstName |-> "Marko",
        LastName |-> "Markovic", Email |-> "marko@gugl.com", Balance |-> 9000],
       [ID |-> "user2", DocType |-> "user", FirstName |-> "Petar",
        LastName |-> "Petrovic", Email |-> "petar@jahu.com", Balance |-> 3500],
       [ID |-> "user3", DocType |-> "user", FirstName |-> "Nikola",
        LastName |-> "Nikolic", Email |-> "nikola@bing.com", Balance |-> 4000] >>

cars ==
    << [ID |-> "car1", DocType |-> "car", Brand |-> "Ferrari", Model |-> "F40",
        Year |-> "1990", Color |-> "Red", Owner |-> "user1", Price |-> 5000,
        Malfunctions |-> <<>>],
       [ID |-> "car2", DocType |-> "car", Brand |-> "Rolls Royce", Model |-> "Phantom",
        Year |-> "2018", Color |-> "Black", Owner |-> "user1", Price |-> 20000,
        Malfunctions |-> <<>>],
       [ID |-> "car3", DocType |-> "car", Brand |-> "Ford", Model |-> "GT40",
        Year |-> "1969", Color |-> "Blue", Owner |-> "user1", Price |-> 7000,
        Malfunctions |-> <<>>],
       [ID |-> "car4", DocType |-> "car", Brand |-> "Ford", Model |-> "Mustang",
        Year |-> "2020", Color |-> "Black", Owner |-> "user2", Price |-> 12000,
        Malfunctions |-> <<>>],
       [ID |-> "car5", DocType |-> "car", Brand |-> "Tesla", Model |-> "S",
        Year |-> "2019", Color |-> "White", Owner |-> "user2", Price |-> 9000,
        Malfunctions |-> <<>>],
       [ID |-> "car6", DocType |-> "car", Brand |-> "Mazda", Model |-> "6",
        Year |-> "2018", Color |-> "Grey", Owner |-> "user2", Price |-> 10000,
        Malfunctions |-> <<>>] >>

(* InitLedger writing the cars only. *)
InitLedgerCarsOnly ==
    Done([i \in 1..Len(cars) |-> Put(cars[i].ID, MarshalCar(cars[i]))])

(* InitLedger writing the cars before the users. *)
InitLedgerCarsFirst ==
    Done([i \in 1..Len(cars) |-> Put(cars[i].ID, MarshalCar(cars[i]))]
         \o [i \in 1..Len(users) |-> Put(users[i].ID, MarshalUser(users[i]))])

InitLedger ==
    Done([i \in 1..Len(users) |-> Put(users[i].ID, MarshalUser(users[i]))]
         \o [i \in 1..Len(cars) |-> Put(cars[i].ID, MarshalCar(cars[i]))])

ReadCar(st, id) ==
    IF id \notin DOMAIN st
    THEN [err |-> ErrCarNotExist, car |-> UnmarshalCar(<<>>)]
    ELSE [err |-> NoError, car |-> UnmarshalCar(st[id])]

ReadUser(st, id) ==
    IF id \notin DOMAIN st
    THEN [err |-> ErrUserNotExist, user |-> UnmarshalUser(<<>>)]
    ELSE [err |-> NoError, user |-> UnmarshalUser(st[id])]

AssetExists(st, id) == id \in DOMAIN st

(* DeleteAsset without the call that removes the key. *)
DeleteAssetKeepsKey(st, id) ==
    IF ~AssetExists(st, id) THEN Fail(ErrAssetNotExist) ELSE Done(<<>>)

(* DeleteAsset without the existence check. *)
DeleteAssetUnchecked(st, id) == Done(<<Del(id)>>)

DeleteAsset(st, id) ==
    IF ~AssetExists(st, id)
    THEN Fail(ErrAssetNotExist)
    ELSE Done(<<Del(id)>>)

(* AddMalfunction without the check of the price's sign. *)
AddMalfunctionAnyPrice(st, id, description, price) ==
    LET r == ReadCar(st, id)
        car == r.car
        totalMalfunctionPrice == price + SumPrices(car.Malfunctions)
    IN  IF r.err # NoError THEN Fail(r.err)
        ELSE IF totalMalfunctionPrice > car.Price THEN DeleteAsset(st, id)
        ELSE Done(<<Put(id, MarshalCar(
                 [car EXCEPT !.Malfunctions =
                      Append(car.Malfunctions, Malfunction(description, price))]))>>)

(* AddMalfunction writing the car off when the total reaches its price. *)
AddMalfunctionWriteOffAtPrice(st, id, description, price) ==
    LET r == ReadCar(st, id)
        car == r.car
        totalMalfunctionPrice == price + SumPrices(car.Malfunctions)
    IN  IF r.err # NoError THEN Fail(r.err)
        ELSE IF price <= 0 THEN Fail(ErrPrice)
        ELSE IF totalMalfunctionPrice >= car.Price THEN DeleteAsset(st, id)
        ELSE Done(<<Put(id, MarshalCar(
                 [car EXCEPT !.Malfunctions =
                      Append(car.Malfunctions, Malfunction(description, price))]))>>)

(* AddMalfunction without the write-off of the car. *)
AddMalfunctionNeverWritesOff(st, id, description, price) ==
    LET r == ReadCar(st, id)
        car == r.car
    IN  IF r.err # NoError THEN Fail(r.err)
        ELSE IF price <= 0 THEN Fail(ErrPrice)
        ELSE Done(<<Put(id, MarshalCar(
                 [car EXCEPT !.Malfunctions =
                      Append(car.Malfunctions, Malfunction(description, price))]))>>)

(* AddMalfunction putting the new entry at the head of the list. *)
AddMalfunctionPrepends(st, id, description, price) ==
    LET r == ReadCar(st, id)
        car == r.car
        totalMalfunctionPrice == price + SumPrices(car.Malfunctions)
    IN  IF r.err # NoError THEN Fail(r.err)
        ELSE IF price <= 0 THEN Fail(ErrPrice)
        ELSE IF totalMalfunctionPrice > car.Price THEN DeleteAsset(st, id)
        ELSE Done(<<Put(id, MarshalCar(
                 [car EXCEPT !.Malfunctions =
                      <<Malfunction(description, price)>> \o car.Malfunctions]))>>)

AddMalfunction(st, id, description, price) ==
    LET r == ReadCar(st, id)
        car == r.car
        totalMalfunctionPrice == price + SumPrices(car.Malfunctions)
    IN  IF r.err # NoError THEN Fail(r.err)
        ELSE IF price <= 0 THEN Fail(ErrPrice)
        ELSE IF totalMalfunctionPrice > car.Price THEN DeleteAsset(st, id)
        ELSE Done(<<Put(id, MarshalCar(
                 [car EXCEPT !.Malfunctions =
                      Append(car.Malfunctions, Malfunction(description, price))]))>>)

(* ChangeColor storing a new car under a key it did not find. *)
ChangeColorCreates(st, id, color) ==
    LET r == ReadCar(st, id)
        car == [r.car EXCEPT !.Color = color]
    IN  IF r.err # NoError
        THEN Done(<<Put(id, MarshalCar([car EXCEPT !.ID = id]))>>)
        ELSE Done(<<Put(car.ID, MarshalCar(car))>>)

ChangeColor(st, id, color) ==
    LET r == ReadCar(st, id)
        car == [r.car EXCEPT !.Color = color]
    IN  IF r.err # NoError THEN Fail(r.err)
        ELSE Done(<<Put(car.ID, MarshalCar(car))>>)

(* BuyCar taking every purchase as acknowledged. *)
BuyCarIgnoresFlag(st, id, newOwner, flag) ==
    LET r == ReadCar(st, id)
        car == r.car
        ou == ReadUser(st, car.Owner)
        nu == ReadUser(st, newOwner)
        mfCosts == SumPrices(car.Malfunctions)
        carTotalPrice == IF mfCosts > 0 THEN car.Price - mfCosts ELSE car.Price
        newUser == [nu.user EXCEPT !.Balance = @ - carTotalPrice]
        oldUSer == [ou.user EXCEPT !.Balance = @ + carTotalPrice]
    IN  IF r.err # NoError THEN Fail(r.err)
        ELSE IF ou.err # NoError THEN Fail(ou.err)
        ELSE IF nu.err # NoError THEN Fail(nu.err)
        ELSE IF nu.user.Balance < carTotalPrice
             THEN Fail(ErrPurchase)
        ELSE Done(<<PutIgnored(oldUSer.ID, MarshalUser(oldUSer)),
                    PutIgnored(newOwner, MarshalUser(newUser)),
                    Put(id, MarshalCar([car EXCEPT !.Owner = newOwner]))>>)

(* BuyCar without the comparison of the buyer's balance with the price. *)
BuyCarNoFundsCheck(st, id, newOwner, flag) ==
    LET r == ReadCar(st, id)
        car == r.car
        ou == ReadUser(st, car.Owner)
        nu == ReadUser(st, newOwner)
        mfCosts == SumPrices(car.Malfunctions)
        carTotalPrice == IF mfCosts > 0 THEN car.Price - mfCosts ELSE car.Price
        newUser == [nu.user EXCEPT !.Balance = @ - carTotalPrice]
        oldUSer == [ou.user EXCEPT !.Balance = @ + carTotalPrice]
    IN  IF r.err # NoError THEN Fail(r.err)
        ELSE IF ou.err # NoError THEN Fail(ou.err)
        ELSE IF nu.err # NoError THEN Fail(nu.err)
        ELSE IF mfCosts > 0 /\ ~flag
             THEN Fail(ErrCanceled)
        ELSE Done(<<PutIgnored(oldUSer.ID, MarshalUser(oldUSer)),
                    PutIgnored(newOwner, MarshalUser(newUser)),
                    Put(id, MarshalCar([car EXCEPT !.Owner = newOwner]))>>)

(* BuyCar writing the car before the two users. *)
BuyCarWritesCarFirst(st, id, newOwner, flag) ==
    LET r == ReadCar(st, id)
        car == r.car
        ou == ReadUser(st, car.Owner)
        nu == ReadUser(st, newOwner)
        mfCosts == SumPrices(car.Malfunctions)
        carTotalPrice == IF mfCosts > 0 THEN car.Price - mfCosts ELSE car.Price
        newUser == [nu.user EXCEPT !.Balance = @ - carTotalPrice]
        oldUSer == [ou.user EXCEPT !.Balance = @ + carTotalPrice]
    IN  IF r.err # NoError THEN Fail(r.err)
        ELSE IF ou.err # NoError THEN Fail(ou.err)
        ELSE IF nu.err # NoError THEN Fail(nu.err)
        ELSE IF mfCosts > 0 /\ ~flag
             THEN Fail(ErrCanceled)
        ELSE IF nu.user.Balance < carTotalPrice
             THEN Fail(ErrPurchase)
        ELSE Done(<<PutIgnored(id, MarshalCar([car EXCEPT !.Owner = newOwner])),
                    PutIgnored(oldUSer.ID, MarshalUser(oldUSer)),
                    Put(newOwner, MarshalUser(newUser))>>)

BuyCar(st, id, newOwner, flag) ==
    LET r == ReadCar(st, id)
        car == r.car
        ou == ReadUser(st, car.Owner)
        nu == ReadUser(st, newOwner)
        mfCosts == SumPrices(car.Malfunctions)
        carTotalPrice == IF mfCosts > 0 THEN car.Price - mfCosts ELSE car.Price
        newUser == [nu.user EXCEPT !.Balance = @ - carTotalPrice]
        oldUSer == [ou.user EXCEPT !.Balance = @ + carTotalPrice]
    IN  IF r.err # NoError THEN Fail(r.err)
        ELSE IF ou.err # NoError THEN Fail(ou.err)
        ELSE IF nu.err # NoError THEN Fail(nu.err)
        ELSE IF mfCosts > 0 /\ ~flag
             THEN Fail(ErrCanceled)
        ELSE IF nu.user.Balance < carTotalPrice
             THEN Fail(ErrPurchase)
        ELSE Done(<<PutIgnored(oldUSer.ID, MarshalUser(oldUSer)),
                    PutIgnored(newOwner, MarshalUser(newUser)),
                    Put(id, MarshalCar([car EXCEPT !.Owner = newOwner]))>>)

(* FixCar without the comparison of the owner's balance with the price. *)
FixCarNoFundsCheck(st, id) ==
    LET r == ReadCar(st, id)
        car == r.car
        o == ReadUser(st, car.Owner)
        m == ReadUser(st, "user3")
        price == SumPrices(car.Malfunctions)
        owner == [o.user EXCEPT !.Balance = @ - price]
        mechanic == [m.user EXCEPT !.Balance = @ + price]
    IN  IF r.err # NoError THEN Fail(r.err)
        ELSE IF o.err # NoError THEN Fail(o.err)
        ELSE IF m.err # NoError THEN Fail(m.err)
        ELSE Done(<<PutIgnored(owner.ID, MarshalUser(owner)),
                    PutIgnored(mechanic.ID, MarshalUser(mechanic)),
                    Put(id, MarshalCar([car EXCEPT !.Malfunctions = <<>>]))>>)

FixCar(st, id) ==
    LET r == ReadCar(st, id)
        car == r.car
        o == ReadUser(st, car.Owner)
        m == ReadUser(st, "user3")
        price == SumPrices(car.Malfunctions)
        owner == [o.user EXCEPT !.Balance = @ - price]
        mechanic == [m.user EXCEPT !.Balance = @ + price]
    IN  IF r.err # NoError THEN Fail(r.err)
        ELSE IF o.err # NoError THEN Fail(o.err)
        ELSE IF m.err # NoError THEN Fail(m.err)
        ELSE IF o.user.Balance < price
             THEN Fail(ErrRepair)
        ELSE Done(<<PutIgnored(owner.ID, MarshalUser(owner)),
                    PutIgnored(mechanic.ID, MarshalUser(mechanic)),
                    Put(id, MarshalCar([car EXCEPT !.Malfunctions = <<>>]))>>)

(* A selector is a JSON object of member-equality predicates, ANDed.  The  *)
(* query facility yields the matching documents in key order.              *)

KeyOrder == <<"car1", "car2", "car3", "car4", "car5", "car6",
              "user1", "user2", "user3">>

Matches(json, selector) ==
    \A name \in DOMAIN selector :
        name \in DOMAIN json /\ json[name] = selector[name]

(* The failure of a query: none, the query itself, the advance to the      *)
(* result number at, or a value at that position that is not the JSON of   *)
(* an object.                                                              *)
NoFault == [kind |-> "none", at |-> 0]

GetQueryResult(st, selector, fault) ==
    LET hits == SelectSeq(KeyOrder,
                    LAMBDA k : k \in DOMAIN st /\ Matches(st[k], selector))
    IN  IF fault.kind = "query"
        THEN [err |-> ErrGetQueryResult, resultsIterator |-> <<>>]
        ELSE [err |-> NoError,
              resultsIterator |->
                  [i \in 1..Len(hits) |->
                      [fault |-> IF fault.at = i THEN fault.kind ELSE "none",
                       Value |-> st[hits[i]]]]]

RECURSIVE constructQueryResponseFromIterator(_, _, _)
constructQueryResponseFromIterator(resultsIterator, i, found) ==
    IF i > Len(resultsIterator) THEN [err |-> NoError, cars |-> found]
    ELSE IF resultsIterator[i].fault = "next"
         THEN [err |-> ErrNext, cars |-> <<>>]
    ELSE IF resultsIterator[i].fault = "decode"
         THEN [err |-> ErrDecode, cars |-> <<>>]
    ELSE constructQueryResponseFromIterator(resultsIterator, i + 1,
             Append(found, UnmarshalCar(resultsIterator[i].Value)))

(* getQueryResultForQueryString closing the cursor only after a complete   *)
(* iteration.                                                              *)
getQueryResultForQueryStringClosesOnSuccess(st, queryString, fault) ==
    LET q == GetQueryResult(st, queryString, fault)
        r == constructQueryResponseFromIterator(q.resultsIterator, 1, <<>>)
    IN  IF q.err # NoError
        THEN [err |-> q.err, cars |-> <<>>, opened |-> 0, closed |-> 0]
        ELSE [err |-> r.err, cars |-> r.cars, opened |-> 1,
              closed |-> IF r.err = NoError THEN 1 ELSE 0]

(* opened and closed count the cursors the call obtained and the Close     *)
(* calls it made: the deferred Close runs once, when the function returns. *)
getQueryResultForQueryString(st, queryString, fault) ==
    LET q == GetQueryResult(st, queryString, fault)
        r == constructQueryResponseFromIterator(q.resultsIterator, 1, <<>>)
    IN  IF q.err # NoError
        THEN [err |-> q.err, cars |-> <<>>, opened |-> 0, closed |-> 0]
        ELSE [err |-> r.err, cars |-> r.cars, opened |-> 1, closed |-> 1]

QueryAssetsByColor(st, color, fault) ==
    getQueryResultForQueryString(st, [docType |-> "car", color |-> color], fault)

QueryAssetsByOwner(st, owner, fault) ==
    getQueryResultForQueryString(st, [docType |-> "car", owner |-> owner], fault)

QueryAssetsByColorAndOwner(st, color, owner, fault) ==
    getQueryResultForQueryString(st,
        [docType |-> "car", color |-> color, owner |-> owner], fault)

QueryAssets(st, queryString, fault) ==
    getQueryResultForQueryString(st, queryString, fault)

-----------------------------------------------------------------------------
(* Invocations. *)

Selectors == {[model |-> "Mustang"], [ID |-> "user1"]}

Idle == [op |-> "none", args |-> <<>>, err |-> NoError, fault |-> 0]

Invocation(op, args, r) ==
    LET st == ApplyWrites(store, r.ws)
    IN  /\ last = Idle
        /\ ~faulted
        /\ st # store => writes < MaxWrites
        /\ store' = st
        /\ prev' = store
        /\ writes' = IF st # store THEN writes + 1 ELSE writes
        /\ UNCHANGED <<seeded, faulted, cursors>>
        /\ last' = [op |-> op, args |-> args, err |-> r.err, fault |-> 0]

(* The invocation with one of its writes failing.  After a failed write    *)
(* the ledger is seeded again before anything else is invoked.             *)
FaultyInvocation(op, args, r) ==
    /\ last = Idle
    /\ ~faulted
    /\ writes < MaxWrites
    /\ \E ws \in {r.ws} : \E f \in 1..Len(ws) :
           LET o == IssueWrites(store, ws, 1, f)
           IN  /\ store' = o.st
               /\ prev' = store
               /\ faulted' = TRUE
               /\ UNCHANGED <<writes, seeded, cursors>>
               /\ last' = [op |-> op, args |-> args, err |-> o.err, fault |-> f]

(* The evaluation of a query, q being what the query returned and what it  *)
(* did with its cursor; fault is the position at which it failed (0: no    *)
(* failure, or the query itself).                                          *)
QueryInvocation(op, args, q, fault) ==
    /\ last = Idle
    /\ ~faulted
    /\ cursors' = cursors + q.opened - q.closed
    /\ prev' = store
    /\ UNCHANGED <<store, writes, seeded, faulted>>
    /\ last' = [op |-> op, args |-> args, err |-> q.err, fault |-> fault]

(* The client takes the response of the invocation it awaited. *)
Respond ==
    /\ last # Idle
    /\ last' = Idle
    /\ prev' = store
    /\ UNCHANGED <<store, writes, seeded, faulted, cursors>>

SubmitInitLedger ==
    /\ last = Idle
    /\ store' = ApplyWrites(store, InitLedger.ws)
    /\ prev' = store
    /\ writes' = 0
    /\ seeded' = TRUE
    /\ faulted' = FALSE
    /\ UNCHANGED cursors
    /\ last' = [op |-> "InitLedger", args |-> <<>>, err |-> InitLedger.err,
                fault |-> 0]

SubmitAddMalfunction ==
    \E id \in Ids, description \in Descriptions, price \in Prices :
        Invocation("AddMalfunction", <<id, description, price>>,
                   AddMalfunction(store, id, description, price))

EvaluateReadCar ==
    \E id \in Ids : Invocation("ReadCar", <<id>>, Fail(ReadCar(store, id).err))

EvaluateReadUser ==
    \E id \in Ids : Invocation("ReadUser", <<id>>, Fail(ReadUser(store, id).err))

EvaluateAssetExists ==
    \E id \in Ids : Invocation("AssetExists", <<id>>, Fail(NoError))

SubmitChangeColor ==
    \E id \in Ids, color \in Colors :
        Invocation("ChangeColor", <<id, color>>, ChangeColor(store, id, color))

SubmitDeleteAsset ==
    \E id \in Ids : Invocation("DeleteAsset", <<id>>, DeleteAsset(store, id))

SubmitBuyCar ==
    \E id \in Ids, newOwner \in Ids, flag \in BOOLEAN :
        Invocation("BuyCar", <<id, newOwner, flag>>, BuyCar(store, id, newOwner, flag))

SubmitFixCar ==
    \E id \in Ids : Invocation("FixCar", <<id>>, FixCar(store, id))

EvaluateQueryAssetsByColor ==
    \E color \in Colors :
        QueryInvocation("QueryAssetsByColor", <<color>>,
                        QueryAssetsByColor(store, color, NoFault), 0)

EvaluateQueryAssetsByOwner ==
    \E owner \in Ids :
        QueryInvocation("QueryAssetsByOwner", <<owner>>,
                        QueryAssetsByOwner(store, owner, NoFault), 0)

EvaluateQueryAssetsByColorAndOwner ==
    \E color \in Colors, owner \in Ids :
        QueryInvocation("QueryAssetsByColorAndOwner", <<color, owner>>,
                        QueryAssetsByColorAndOwner(store, color, owner, NoFault), 0)

EvaluateQueryAssets ==
    \E queryString \in Selectors :
        QueryInvocation("QueryAssets", <<queryString>>,
                        QueryAssets(store, queryString, NoFault), 0)

Init ==
    /\ store = <<>>
    /\ prev = <<>>
    /\ writes = 0
    /\ seeded = FALSE
    /\ faulted = FALSE
    /\ cursors = 0
    /\ last = Idle

Next ==
    \/ SubmitInitLedger
    \/ SubmitAddMalfunction
    \/ EvaluateReadCar
    \/ EvaluateReadUser
    \/ EvaluateAssetExists
    \/ SubmitChangeColor
    \/ SubmitDeleteAsset
    \/ SubmitBuyCar
    \/ SubmitFixCar
    \/ EvaluateQueryAssetsByColor
    \/ EvaluateQueryAssetsByOwner
    \/ EvaluateQueryAssetsByColorAndOwner
    \/ EvaluateQueryAssets
    \/ Respond

Spec == Init /\ [][Next]_vars

(* The invocations with a write or a delete of the state accessor failing. *)
FaultyInitLedger == FaultyInvocation("InitLedger", <<>>, InitLedger)

FaultyAddMalfunction ==
    \E id \in Ids, description \in Descriptions, price \in Prices :
        FaultyInvocation("AddMalfunction", <<id, description, price>>,
                         AddMalfunction(store, id, description, price))

FaultyChangeColor ==
    \E id \in Ids, color \in Colors :
        FaultyInvocation("ChangeColor", <<id, color>>,
                         ChangeColor(store, id, color))

FaultyDeleteAsset ==
    \E id \in Ids : FaultyInvocation("DeleteAsset", <<id>>, DeleteAsset(store, id))

FaultyBuyCar ==
    \E id \in Ids, newOwner \in Ids, flag \in BOOLEAN :
        FaultyInvocation("BuyCar", <<id, newOwner, flag>>,
                         BuyCar(store, id, newOwner, flag))

FaultyFixCar ==
    \E id \in Ids : FaultyInvocation("FixCar", <<id>>, FixCar(store, id))

(* The queries with the query facility failing: the query itself, or the   *)
(* iteration at one of the results the query yields.                       *)
Faults(results) ==
    {[kind |-> "query", at |-> 0]}
        \cup {[kind |-> k, at |-> i] : k \in {"next", "decode"},
                                       i \in 1..Len(results)}

FaultyQueryAssetsByColor ==
    /\ last = Idle
    /\ writes < MaxWrites
    /\ \E color \in Colors :
           \E fault \in Faults(QueryAssetsByColor(store, color, NoFault).cars) :
               QueryInvocation("QueryAssetsByColor", <<color>>,
                               QueryAssetsByColor(store, color, fault), fault.at)

FaultyQueryAssetsByOwner ==
    /\ last = Idle
    /\ writes < MaxWrites
    /\ \E owner \in Ids :
           \E fault \in Faults(QueryAssetsByOwner(store, owner, NoFault).cars) :
               QueryInvocation("QueryAssetsByOwner", <<owner>>,
                               QueryAssetsByOwner(store, owner, fault), fault.at)

FaultyQueryAssetsByColorAndOwner ==
    /\ last = Idle
    /\ writes < MaxWrites
    /\ \E color \in Colors, owner \in Ids :
           \E fault \in Faults(QueryAssetsByColorAndOwner(store, color, owner,
                                                         NoFault).cars) :
               QueryInvocation("QueryAssetsByColorAndOwner", <<color, owner>>,
                               QueryAssetsByColorAndOwner(store, color, owner, fault),
                               fault.at)

FaultyQueryAssets ==
    /\ last = Idle
    /\ writes < MaxWrites
    /\ \E queryString \in Selectors :
           \E fault \in Faults(QueryAssets(store, queryString, NoFault).cars) :
               QueryInvocation("QueryAssets", <<queryString>>,
                               QueryAssets(store, queryString, fault), fault.at)

NextFail ==
    \/ Next
    \/ FaultyInitLedger
    \/ FaultyAddMalfunction
    \/ FaultyChangeColor
    \/ FaultyDeleteAsset
    \/ FaultyBuyCar
    \/ FaultyFixCar
    \/ FaultyQueryAssetsByColor
    \/ FaultyQueryAssetsByOwner
    \/ FaultyQueryAssetsByColorAndOwner
    \/ FaultyQueryAssets

SpecFail == Init /\ [][NextFail]_vars

-----------------------------------------------------------------------------
(* Vocabulary of the properties. *)

IsUser(st, k) == k \in DOMAIN st /\ Field(st[k], "docType", "") = "user"

IsCar(st, k) == k \in DOMAIN st /\ Field(st[k], "docType", "") = "car"

Balance(st, k) == IF k \in DOMAIN st THEN Field(st[k], "balance", 0) ELSE 0

RECURSIVE SumBalances(_, _)
SumBalances(st, keys) ==
    IF keys = {} THEN 0
    ELSE LET k == CHOOSE x \in keys : TRUE
         IN  Balance(st, k) + SumBalances(st, keys \ {k})

TotalBalance(st) == SumBalances(st, {k \in DOMAIN st : IsUser(st, k)})

CarOf(st, k) == UnmarshalCar(st[k])

(* The Price and the sum of the malfunction prices that ReadCar decodes    *)
(* from the record under key k of st.                                      *)
PriceOf(st, k) == Field(st[k], "price", 0)

MalfunctionCost(st, k) == SumPrices(Field(st[k], "malfunctions", <<>>))

SeedUsers == {users[i].ID : i \in 1..Len(users)}

(* The pending response is that of op, invoked on a key that held a document. *)
Ran(op) == last.op = op /\ last.args[1] \in DOMAIN prev

(* The effective price BuyCar charges for the car under key k of st. *)
EffectivePrice(st, k) == PriceOf(st, k) - MalfunctionCost(st, k)

-----------------------------------------------------------------------------
(* C1: every successful BuyCar and every successful FixCar leaves the sum  *)
(* of all users' balances unchanged, whoever the users involved are.       *)
C1_BalanceConservation ==
    (last.op \in {"BuyCar", "FixCar"} /\ last.err = NoError)
        => TotalBalance(store) = TotalBalance(prev)

(* C2: after a successful BuyCar(id, newOwnerId, ack) the previous owner's *)
(* balance is its balance before plus the effective price, the new owner's *)
(* is its balance before minus the effective price, and the car's Owner is *)
(* newOwnerId, for all cars and all buyers.                                *)
C2_BuyCarTransfers ==
    (Ran("BuyCar") /\ last.err = NoError)
        => LET id == last.args[1]
               newOwner == last.args[2]
               oldOwner == CarOf(prev, id).Owner
               price == EffectivePrice(prev, id)
           IN  /\ Balance(store, oldOwner) = Balance(prev, oldOwner) + price
               /\ Balance(store, newOwner) = Balance(prev, newOwner) - price
               /\ id \in DOMAIN store
               /\ CarOf(store, id).Owner = newOwner

(* C3: after a successful FixCar(id) the car's malfunction list is empty,  *)
(* the owner is debited and the mechanic (user3) credited by the sum of    *)
(* the malfunction prices the car had, and the two balances add up to what *)
(* they added up to before, whoever owns the car.                          *)
C3_FixCarSettles ==
    (Ran("FixCar") /\ last.err = NoError)
        => LET id == last.args[1]
               owner == CarOf(prev, id).Owner
               price == MalfunctionCost(prev, id)
           IN  /\ id \in DOMAIN store
               /\ CarOf(store, id).Malfunctions = <<>>
               /\ Balance(store, owner) + Balance(store, "user3")
                    = Balance(prev, owner) + Balance(prev, "user3")
               /\ (owner # "user3" =>
                     /\ Balance(store, owner) = Balance(prev, owner) - price
                     /\ Balance(store, "user3") = Balance(prev, "user3") + price)

(* The case of C4: AddMalfunction on a car, the new price plus the car's   *)
(* malfunction prices being above the car's price.                         *)
C4_Case ==
    /\ last.op = "AddMalfunction"
    /\ IsCar(prev, last.args[1])
    /\ last.args[3] + MalfunctionCost(prev, last.args[1])
         > CarOf(prev, last.args[1]).Price

(* C4: an AddMalfunction on an existing car whose price plus the car's     *)
(* malfunction prices exceeds the car's price removes the car's key, writes*)
(* no document (every other key keeps its document), and a ReadCar of the  *)
(* key afterwards fails with NotFound.                                     *)
C4_WriteOffRemovesCar ==
    C4_Case
        => /\ last.args[1] \notin DOMAIN store
           /\ store = DelState(prev, last.args[1])
           /\ ReadCar(store, last.args[1]).err \in NotFound

C4_Witness == C4_Case /\ last.err = NoError /\ seeded

(* C5 as stated: every AddMalfunction with price <= 0, whatever its id,    *)
(* leaves the store unchanged and results in the non-positive-price error. *)
C5_AnyIdValidationError ==
    (last.op = "AddMalfunction" /\ last.args[3] <= 0)
        => (store = prev /\ last.err = ErrPrice)

(* C5 amended: every AddMalfunction with price <= 0 leaves the store       *)
(* unchanged and fails: with the non-positive-price error when the id      *)
(* holds a document, with NotFound when the id is absent.                  *)
C5_NonPositivePriceRejected ==
    (last.op = "AddMalfunction" /\ last.args[3] <= 0)
        => /\ store = prev
           /\ last.args[1] \in DOMAIN prev => last.err = ErrPrice
           /\ last.args[1] \notin DOMAIN prev => last.err = ErrCarNotExist

C5_Witness ==
    /\ Ran("AddMalfunction")
    /\ last.args[3] <= 0
    /\ IsCar(prev, last.args[1])
    /\ last.err \in ValidationError

(* The case of C6: BuyCar without acknowledgement on a car with a positive *)
(* malfunction cost, the car's owner and the prospective owner existing.   *)
C6_Case ==
    /\ Ran("BuyCar")
    /\ ~last.args[3]
    /\ MalfunctionCost(prev, last.args[1]) > 0
    /\ CarOf(prev, last.args[1]).Owner \in DOMAIN prev
    /\ last.args[2] \in DOMAIN prev

(* C6: BuyCar(id, newOwnerId, false) on a car whose malfunction cost is    *)
(* positive returns the cancellation error and issues no write: the car's, *)
(* the owner's and the prospective owner's documents are as before.        *)
C6_UnacknowledgedSaleCanceled ==
    C6_Case => (last.err = ErrCanceled /\ store = prev)

C6_Witness == C6_Case /\ last.err = ErrCanceled

(* C7: once the ledger is seeded, every key that held a user record after  *)
(* seeding holds a user record, whatever operations were invoked since.    *)
C7_UsersNeverDeleted ==
    seeded => \A u \in SeedUsers : IsUser(store, u)

(* C8: once the ledger is seeded, the Owner of every stored car is the key *)
(* of a user record in the store.                                          *)
C8_OwnerExists ==
    seeded => \A k \in DOMAIN store :
                  IsCar(store, k) => IsUser(store, CarOf(store, k).Owner)

(* The cases of C9: BuyCar reaching its funds check with a buyer whose     *)
(* balance is below the price charged, FixCar reaching its funds check     *)
(* with an owner whose balance is below the repair cost.                   *)
C9_BuyCarCase ==
    /\ Ran("BuyCar")
    /\ CarOf(prev, last.args[1]).Owner \in DOMAIN prev
    /\ last.args[2] \in DOMAIN prev
    /\ (MalfunctionCost(prev, last.args[1]) > 0 => last.args[3])
    /\ Balance(prev, last.args[2]) < EffectivePrice(prev, last.args[1])

C9_FixCarCase ==
    /\ Ran("FixCar")
    /\ CarOf(prev, last.args[1]).Owner \in DOMAIN prev
    /\ "user3" \in DOMAIN prev
    /\ Balance(prev, CarOf(prev, last.args[1]).Owner)
         < MalfunctionCost(prev, last.args[1])

(* C9: when BuyCar finds the new owner's balance below the effective price,*)
(* or FixCar the owner's balance below the repair cost, the operation      *)
(* returns an InsufficientFunds error and the store is unchanged.          *)
C9_InsufficientFundsNoChange ==
    /\ C9_BuyCarCase => (last.err = ErrPurchase /\ store = prev)
    /\ C9_FixCarCase => (last.err = ErrRepair /\ store = prev)

C9_Witness == C9_FixCarCase /\ last.err \in InsufficientFunds

(* The cases of C10: an operation invoked on an absent id; BuyCar with the *)
(* car's owner or the prospective owner absent; FixCar with the car's      *)
(* owner or the mechanic account absent.                                   *)
C10_AbsentId ==
    /\ last.op \in {"ReadCar", "ReadUser", "ChangeColor", "AddMalfunction",
                    "DeleteAsset", "FixCar", "BuyCar"}
    /\ last.args[1] \notin DOMAIN prev

C10_BuyCarAbsentUser ==
    /\ Ran("BuyCar")
    /\ \/ CarOf(prev, last.args[1]).Owner \notin DOMAIN prev
       \/ last.args[2] \notin DOMAIN prev

C10_FixCarAbsentUser ==
    /\ Ran("FixCar")
    /\ \/ CarOf(prev, last.args[1]).Owner \notin DOMAIN prev
       \/ "user3" \notin DOMAIN prev

(* C10: every operation that references an absent key fails with NotFound  *)
(* and leaves the store unchanged.                                         *)
C10_AbsentKeyNotFound ==
    (C10_AbsentId \/ C10_BuyCarAbsentUser \/ C10_FixCarAbsentUser)
        => (last.err \in NotFound /\ store = prev)

C10_Witness ==
    /\ seeded
    /\ Ran("FixCar")
    /\ IsCar(prev, last.args[1])
    /\ IsUser(prev, CarOf(prev, last.args[1]).Owner)
    /\ "user3" \notin DOMAIN prev
    /\ last.err = ErrUserNotExist

(* The case of C11: AddMalfunction on a car, the new price being positive  *)
(* and, with the car's malfunction prices, equal to the car's price.       *)
C11_Case ==
    /\ last.op = "AddMalfunction"
    /\ IsCar(prev, last.args[1])
    /\ last.args[3] > 0
    /\ last.args[3] + MalfunctionCost(prev, last.args[1])
         = CarOf(prev, last.args[1]).Price

(* C11: a car is destroyed when its malfunction cost meets or exceeds its  *)
(* price: an AddMalfunction that brings the cost to exactly the price      *)
(* removes the car, and no stored car has a malfunction cost equal to its  *)
(* price.                                                                  *)
C11_WriteOffAtPrice ==
    /\ C11_Case => last.args[1] \notin DOMAIN store
    /\ seeded => \A k \in DOMAIN store :
                     (IsCar(store, k) /\ CarOf(store, k).Price > 0)
                         => MalfunctionCost(store, k) # CarOf(store, k).Price

(* C11 amended: a car is destroyed only when its malfunction cost would    *)
(* exceed its price: an AddMalfunction that brings the cost to exactly the *)
(* price succeeds, appends the malfunction and leaves the car stored with  *)
(* a malfunction cost equal to its price.                                  *)
C11_WriteOffAbovePriceOnly ==
    /\ C11_Case
         => /\ last.err = NoError
            /\ IsCar(store, last.args[1])
            /\ MalfunctionCost(store, last.args[1])
                 = CarOf(store, last.args[1]).Price
            /\ Len(CarOf(store, last.args[1]).Malfunctions)
                 = Len(CarOf(prev, last.args[1]).Malfunctions) + 1
    /\ C4_Case => last.args[1] \notin DOMAIN store

C11_Witness == C11_Case /\ seeded /\ last.err = NoError

(* The operations that are neither an ownership transfer nor a repair      *)
(* settlement (nor the seeding).                                           *)
C12_Ops ==
    {"ChangeColor", "AddMalfunction", "DeleteAsset", "AssetExists", "ReadCar",
     "ReadUser", "QueryAssetsByColor", "QueryAssetsByOwner",
     "QueryAssetsByColorAndOwner", "QueryAssets"}

(* C12: ChangeColor, AddMalfunction, DeleteAsset, AssetExists, ReadCar,    *)
(* ReadUser and the queries, invoked with any key argument, leave the      *)
(* stored Balance of every user unchanged (stated for the user records     *)
(* that are still stored after the invocation).                            *)
C12_BalanceOnlyByTransferAndRepair ==
    last.op \in C12_Ops
        => \A k \in DOMAIN prev :
               (IsUser(prev, k) /\ k \in DOMAIN store)
                   => Balance(store, k) = Balance(prev, k)

(* C13: an invocation in which a write or a delete of the handler failed   *)
(* returns an error; in particular a BuyCar or a FixCar one of whose three *)
(* writes failed never reports success.                                    *)
C13_WriteFailureSurfaced ==
    last.fault # 0 => last.err # NoError

(* C14: a successful ChangeColor(id, color) changes only the Color of the  *)
(* record stored under id: every other member of that record is as        *)
(* before, the record is under the same key and every other key of the    *)
(* store is unchanged.                                                     *)
C14_ChangeColorOnlyColor ==
    (last.op = "ChangeColor" /\ last.err = NoError)
        => LET id == last.args[1]
           IN  /\ DOMAIN store = DOMAIN prev
               /\ \A k \in DOMAIN prev \ {id} : store[k] = prev[k]
               /\ Field(store[id], "color", "") = last.args[2]
               /\ \A m \in DOMAIN prev[id] \ {"color"} :
                      m \in DOMAIN store[id] /\ store[id][m] = prev[id][m]

(* C15: after a successful InitLedger, whatever the store was before, each *)
(* of the nine seed keys holds its seed record (balances 9000, 3500, 4000; *)
(* the seeded owners and prices; no malfunctions), and a second InitLedger *)
(* would leave that store as it is.                                        *)
C15_SeedRestored ==
    (last.op = "InitLedger" /\ last.err = NoError)
        => LET balance == <<9000, 3500, 4000>>
               owner == <<"user1", "user1", "user1", "user2", "user2", "user2">>
               price == <<5000, 20000, 7000, 12000, 9000, 10000>>
               userKey == <<"user1", "user2", "user3">>
               carKey == <<"car1", "car2", "car3", "car4", "car5", "car6">>
           IN  /\ \A i \in 1..3 :
                      /\ userKey[i] \in DOMAIN store
                      /\ store[userKey[i]] = MarshalUser(users[i])
                      /\ IsUser(store, userKey[i])
                      /\ Balance(store, userKey[i]) = balance[i]
               /\ \A i \in 1..6 :
                      /\ carKey[i] \in DOMAIN store
                      /\ store[carKey[i]] = MarshalCar(cars[i])
                      /\ IsCar(store, carKey[i])
                      /\ CarOf(store, carKey[i]).ID = carKey[i]
                      /\ CarOf(store, carKey[i]).Owner = owner[i]
                      /\ CarOf(store, carKey[i]).Price = price[i]
                      /\ CarOf(store, carKey[i]).Malfunctions = <<>>
               /\ ApplyWrites(store, InitLedger.ws) = store

(* An InitLedger over a store in which car1 was written off and the        *)
(* balance of user1 had changed.                                           *)
C15_Witness ==
    /\ last.op = "InitLedger"
    /\ last.err = NoError
    /\ "car1" \notin DOMAIN prev
    /\ IsUser(prev, "user1")
    /\ Balance(prev, "user1") # 9000
    /\ "car1" \in DOMAIN store

(* An AddMalfunction with a positive price on a stored car whose total     *)
(* malfunction cost, the new price included, does not exceed its Price.    *)
C16_Case ==
    /\ last.op = "AddMalfunction"
    /\ IsCar(prev, last.args[1])
    /\ last.args[3] > 0
    /\ last.args[3] + MalfunctionCost(prev, last.args[1])
         <= CarOf(prev, last.args[1]).Price

(* C16: such an AddMalfunction(id, description, price) succeeds and leaves *)
(* under id the car as it was with one entry (description, price) appended *)
(* at the end of its malfunction list: the earlier entries, the other      *)
(* fields and every other key are unchanged.                               *)
C16_AppendsOneEntry ==
    C16_Case
        => LET id == last.args[1]
               before == CarOf(prev, id)
               after == CarOf(store, id)
               n == Len(before.Malfunctions)
           IN  /\ last.err = NoError
               /\ DOMAIN store = DOMAIN prev
               /\ \A k \in DOMAIN prev \ {id} : store[k] = prev[k]
               /\ Len(after.Malfunctions) = n + 1
               /\ \A i \in 1..n : after.Malfunctions[i] = before.Malfunctions[i]
               /\ after.Malfunctions[n + 1].description = last.args[2]
               /\ after.Malfunctions[n + 1].price = last.args[3]
               /\ after = [before EXCEPT !.Malfunctions = after.Malfunctions]
               /\ \A m \in DOMAIN prev[id] \ {"malfunctions"} :
                      m \in DOMAIN store[id] /\ store[id][m] = prev[id][m]

(* A malfunction appended to a list of two entries of different prices,    *)
(* its own price being different from the last one's.                      *)
C16_Witness ==
    /\ C16_Case
    /\ last.err = NoError
    /\ LET before == CarOf(prev, last.args[1]).Malfunctions
       IN  /\ Len(before) = 2
           /\ before[1].price # before[2].price
           /\ before[2].price # last.args[3]

(* C17: once the ledger is seeded, every stored record read as a car has a *)
(* sum of malfunction prices not greater than its Price, and the effective *)
(* price of every successful BuyCar is not negative.                       *)
C17_CostWithinPrice ==
    seeded
        => /\ \A k \in DOMAIN store :
                  MalfunctionCost(store, k) <= PriceOf(store, k)
           /\ (last.op = "BuyCar" /\ last.err = NoError)
                  => EffectivePrice(prev, last.args[1]) >= 0

(* A successful BuyCar of a car whose malfunction cost had reached its     *)
(* Price.                                                                  *)
C17_Witness ==
    /\ seeded
    /\ last.op = "BuyCar"
    /\ last.err = NoError
    /\ IsCar(prev, last.args[1])
    /\ CarOf(prev, last.args[1]).Price > 0
    /\ MalfunctionCost(prev, last.args[1]) = CarOf(prev, last.args[1]).Price
    /\ EffectivePrice(prev, last.args[1]) = 0

(* The operations that take the key of a car as their first argument and   *)
(* fail when they do not find it.                                          *)
C18_CarOps ==
    {"ChangeColor", "AddMalfunction", "DeleteAsset", "BuyCar", "FixCar", "ReadCar"}

(* C18: only InitLedger creates records.  No other invocation leaves in    *)
(* the store a key that was absent before it, the ID member of every       *)
(* stored record is its key, and an operation on the key of a removed car  *)
(* fails with NotFound and leaves the key absent.                          *)
C18_OnlyInitLedgerCreates ==
    /\ last.op \notin {"InitLedger", "none"} => DOMAIN store \subseteq DOMAIN prev
    /\ \A k \in DOMAIN store : Field(store[k], "ID", "") = k
    /\ (last.op \in C18_CarOps /\ last.args[1] \notin DOMAIN prev)
           => (last.err \in NotFound /\ last.args[1] \notin DOMAIN store)

(* After car1 was removed from the seeded ledger, an operation on car1     *)
(* fails with NotFound.                                                    *)
C18_Witness ==
    /\ seeded
    /\ "car1" \notin DOMAIN prev
    /\ "car1" \notin DOMAIN store
    /\ last.op \in {"ChangeColor", "AddMalfunction", "BuyCar", "FixCar"}
    /\ last.args[1] = "car1"
    /\ last.err \in NotFound

(* A BuyCar of a car by a user other than its owner, in which the write    *)
(* number f failed.                                                        *)
C19_BuyCarFault(f) ==
    /\ last.op = "BuyCar"
    /\ last.fault = f
    /\ IsCar(prev, last.args[1])
    /\ IsUser(prev, CarOf(prev, last.args[1]).Owner)
    /\ IsUser(prev, last.args[2])
    /\ CarOf(prev, last.args[1]).Owner # last.args[2]

(* A FixCar of a car whose owner is not the mechanic, in which the write   *)
(* number f failed.                                                        *)
C19_FixCarFault(f) ==
    /\ last.op = "FixCar"
    /\ last.fault = f
    /\ IsCar(prev, last.args[1])
    /\ IsUser(prev, CarOf(prev, last.args[1]).Owner)
    /\ IsUser(prev, "user3")
    /\ CarOf(prev, last.args[1]).Owner # "user3"

(* The checks of the BuyCar or FixCar just invoked pass in the store it    *)
(* read.                                                                   *)
C19_ChecksPass ==
    LET id == last.args[1]
        owner == CarOf(prev, id).Owner
        payer == IF last.op = "BuyCar" THEN last.args[2] ELSE owner
        other == IF last.op = "BuyCar" THEN owner ELSE "user3"
        due == IF last.op = "BuyCar" THEN EffectivePrice(prev, id)
               ELSE MalfunctionCost(prev, id)
    IN  /\ {id, payer, other} \subseteq DOMAIN prev
        /\ Balance(prev, payer) >= due
        /\ last.op = "BuyCar" => (MalfunctionCost(prev, id) > 0 => last.args[3])

(* C19: BuyCar and FixCar write only after all their checks have passed,   *)
(* BuyCar in the order old owner, new owner, car and FixCar in the order   *)
(* owner, mechanic, car, and nothing is rolled back: when the write of the *)
(* car fails, the operation returns an error, both balance writes stay in  *)
(* the store and the car record is as before; when a balance write fails,  *)
(* the other balance and the car are written all the same.                 *)
C19_WritesAfterChecksNoRollback ==
    LET id == last.args[1]
        owner == CarOf(prev, id).Owner
        buyer == last.args[2]
        price == EffectivePrice(prev, id)
        cost == MalfunctionCost(prev, id)
    IN  /\ (last.op \in {"BuyCar", "FixCar"}
               /\ last.err \in NotFound \cup InsufficientFunds \cup {ErrCanceled})
               => store = prev
        /\ (last.op \in {"BuyCar", "FixCar"} /\ (last.fault # 0 \/ store # prev))
               => C19_ChecksPass
        /\ C19_BuyCarFault(1)
               => /\ store[owner] = prev[owner]
                  /\ Balance(store, buyer) = Balance(prev, buyer) - price
                  /\ CarOf(store, id).Owner = buyer
        /\ C19_BuyCarFault(2)
               => /\ Balance(store, owner) = Balance(prev, owner) + price
                  /\ store[buyer] = prev[buyer]
                  /\ CarOf(store, id).Owner = buyer
        /\ C19_BuyCarFault(3)
               => /\ last.err = ErrPersistence
                  /\ Balance(store, owner) = Balance(prev, owner) + price
                  /\ Balance(store, buyer) = Balance(prev, buyer) - price
                  /\ store[id] = prev[id]
                  /\ CarOf(store, id).Owner = owner
        /\ C19_FixCarFault(1)
               => /\ store[owner] = prev[owner]
                  /\ Balance(store, "user3") = Balance(prev, "user3") + cost
                  /\ CarOf(store, id).Malfunctions = <<>>
        /\ C19_FixCarFault(2)
               => /\ Balance(store, owner) = Balance(prev, owner) - cost
                  /\ store["user3"] = prev["user3"]
                  /\ CarOf(store, id).Malfunctions = <<>>
        /\ C19_FixCarFault(3)
               => /\ last.err = ErrPersistence
                  /\ Balance(store, owner) = Balance(prev, owner) - cost
                  /\ Balance(store, "user3") = Balance(prev, "user3") + cost
                  /\ store[id] = prev[id]
                  /\ CarOf(store, id).Malfunctions = CarOf(prev, id).Malfunctions

(* A BuyCar at a positive price whose car write failed: the money has      *)
(* moved and the car has not.                                              *)
C19_Witness ==
    /\ C19_BuyCarFault(3)
    /\ EffectivePrice(prev, last.args[1]) > 0
    /\ last.err = ErrPersistence
    /\ store # prev
    /\ store[last.args[1]] = prev[last.args[1]]

(* C20: InitLedger writes user1, user2, user3, car1, ..., car6 in this     *)
(* order and stops at the first write that fails: it returns an error, the *)
(* keys before the failed write hold their seed records, and the key of    *)
(* the failed write and the keys after it are as they were before the      *)
(* invocation, stored or absent.                                           *)
C20_SeedStopsAtFirstFailure ==
    (last.op = "InitLedger" /\ last.fault # 0)
        => LET order == <<"user1", "user2", "user3",
                          "car1", "car2", "car3", "car4", "car5", "car6">>
               seed(i) == IF i <= 3 THEN MarshalUser(users[i])
                          ELSE MarshalCar(cars[i - 3])
           IN  /\ last.err = ErrPersistence
               /\ last.fault \in 1..9
               /\ \A i \in 1..9 :
                      IF i < last.fault
                      THEN /\ order[i] \in DOMAIN store
                           /\ store[order[i]] = seed(i)
                           /\ Field(store[order[i]], "ID", "") = order[i]
                      ELSE IF order[i] \in DOMAIN prev
                           THEN /\ order[i] \in DOMAIN store
                                /\ store[order[i]] = prev[order[i]]
                           ELSE order[i] \notin DOMAIN store

(* An InitLedger whose write of car1 failed, over a store in which car1    *)
(* was absent and the balance of user1 had changed: user1 is seeded again, *)
(* car1 is still absent.                                                   *)
C20_Witness ==
    /\ last.op = "InitLedger"
    /\ last.fault = 4
    /\ IsUser(prev, "user1")
    /\ Balance(prev, "user1") # 9000
    /\ Balance(store, "user1") = 9000
    /\ "car1" \notin DOMAIN prev
    /\ "car1" \notin DOMAIN store
    /\ last.err = ErrPersistence

(* The four query operations. *)
C21_Queries ==
    {"QueryAssetsByColor", "QueryAssetsByOwner", "QueryAssetsByColorAndOwner",
     "QueryAssets"}

(* C21: no query cursor is open when an operation has returned: every      *)
(* query closes the cursor it obtained exactly once, whether it completes, *)
(* fails at the advance of the cursor or fails at the decoding of a        *)
(* result.                                                                 *)
C21_CursorsReleased == cursors = 0

(* A query that failed at its second result or later, by the advance of    *)
(* the cursor or by the decoding, and left no cursor open.                 *)
C21_Witness ==
    /\ last.op \in C21_Queries
    /\ last.err \in {ErrNext, ErrDecode}
    /\ last.fault >= 2
    /\ cursors = 0

(* C22: a stored record of the other kind is never accepted as the         *)
(* requested kind: ReadCar on a key that holds a user record, ReadUser on  *)
(* a key that holds a car record, and QueryAssets with a selector that     *)
(* matches a user record, all return an error.                             *)
C22_OtherKindRejected ==
    /\ (last.op = "ReadCar" /\ IsUser(prev, last.args[1])) => last.err # NoError
    /\ (last.op = "ReadUser" /\ IsCar(prev, last.args[1])) => last.err # NoError
    /\ (last.op = "QueryAssets"
           /\ \E k \in DOMAIN prev : IsUser(prev, k) /\ Matches(prev[k], last.args[1]))
           => last.err # NoError

(* C23: once the ledger is seeded and while all writes succeed, the        *)
(* Balance of every stored record read as a user is not negative.          *)
C23_BalanceNotNegative ==
    seeded => \A k \in DOMAIN store : Balance(store, k) >= 0

(* A successful BuyCar at a positive price in which the buyer is the       *)
(* owner of the car: the balance stored is the debited one.                *)
C23_Witness ==
    /\ seeded
    /\ last.op = "BuyCar"
    /\ last.err = NoError
    /\ IsCar(prev, last.args[1])
    /\ IsUser(prev, last.args[2])
    /\ CarOf(prev, last.args[1]).Owner = last.args[2]
    /\ EffectivePrice(prev, last.args[1]) > 0
    /\ Balance(store, last.args[2])
         = Balance(prev, last.args[2]) - EffectivePrice(prev, last.args[1])

====
